---- MODULE Spec2Model ----
(***************************************************************************)
(* Model of scripts/generate_set_files.py: the generator of Gentoo package *)
(* set files from a YAML description of architectures and package sets.    *)
(*                                                                         *)
(* Text is modelled as a sequence of symbols.  Names, versions and         *)
(* overlays are sequences of single characters, so that concatenation of   *)
(* text is concatenation of sequences and two texts are equal exactly when *)
(* their sequences are.  The fixed literals of messages are single         *)
(* symbols; none of them holds a newline, which is always the symbol "\n". *)
(***************************************************************************)
EXTENDS Integers, Sequences, FiniteSets, TLC

\* ------------------------------------------------------------------ bounds
\* longest exclude_on / include_on list of the entries given to the two
\* functions when they are checked on their own
MaxListLen == 2
\* most lines of the YAML parser's diagnostic, str(exc)
MaxDiagLines == 2
\* how many times the generator is run on the same input and directory
MaxRuns == 2
\* most architectures of eessi_archs
MaxArchs == 2

\* ------------------------------------------------------------------- text
NL == "\n"

RECURSIVE Concat(_)
\* ''.join(parts): what file.writelines(parts) puts in the file
Concat(parts) ==
    IF parts = <<>> THEN <<>> ELSE Head(parts) \o Concat(Tail(parts))

RECURSIVE CountNL(_)
\* the number of newline characters of a text
CountNL(text) ==
    IF text = <<>> THEN 0
    ELSE (IF Head(text) = NL THEN 1 ELSE 0) + CountNL(Tail(text))

RECURSIVE SplitLines(_, _)
\* the complete lines of a text (each with its newline); cur is the line
\* being read
SplitLines(text, cur) ==
    IF text = <<>> THEN (IF cur = <<>> THEN <<>> ELSE <<cur>>)
    ELSE IF Head(text) = NL
         THEN <<Append(cur, NL)>> \o SplitLines(Tail(text), <<>>)
         ELSE SplitLines(Tail(text), Append(cur, Head(text)))

Lines(text) == SplitLines(text, <<>>)

Digit(d) == CASE d = 0 -> "0" [] d = 1 -> "1" [] d = 2 -> "2" [] d = 3 -> "3"
              [] d = 4 -> "4" [] d = 5 -> "5" [] d = 6 -> "6" [] d = 7 -> "7"
              [] d = 8 -> "8" [] d = 9 -> "9"

RECURSIVE IntStr(_)
\* str(n) of a non-negative int
IntStr(n) == IF n < 10 THEN <<Digit(n)>> ELSE IntStr(n \div 10) \o <<Digit(n % 10)>>

\* a YAML scalar: a string, or an int (version: 12 loads as an int)
StrVal(s) == [kind |-> "str", s |-> s, n |-> 0]
IntVal(n) == [kind |-> "int", s |-> <<>>, n |-> n]

\* str(value)
PyStr(v) == IF v.kind = "int" THEN IntStr(v.n) ELSE v.s

RECURSIVE ListContains(_, _)
\* x in lst, for a list: the first element equal to x decides
ListContains(lst, x) ==
    IF lst = <<>> THEN FALSE
    ELSE IF Head(lst) = x THEN TRUE ELSE ListContains(Tail(lst), x)

\* ---------------------------------------------------------------- entries
\* A package entry is None or a mapping.  keys is the set of keys the
\* mapping holds; the field of a key it does not hold is never read.
NoValue == StrVal(<<>>)

NoneEntry ==
    [none |-> TRUE, keys |-> {}, version |-> NoValue, overlay |-> <<>>,
     exclude_on |-> <<>>, include_on |-> <<>>]

EmptyEntry == [NoneEntry EXCEPT !.none = FALSE]

\* package.get(key, default) for the two list keys
GetList(package, key, default) ==
    IF key \in package.keys
    THEN (IF key = "exclude_on" THEN package.exclude_on ELSE package.include_on)
    ELSE default

\* the line print(package, arch) writes
DebugLine(package, arch) == [kind |-> "debug", arg |-> <<package, arch>>]

is_supported_no_precedence(package, arch) ==
    package.none
    \/ ~ListContains(GetList(package, "exclude_on", <<>>), arch)
    \/ ListContains(GetList(package, "include_on", <<arch>>), arch)

\* is_supported: `or` binds weaker than `and`, and both short-cut
is_supported(package, arch) ==
    IF package.none THEN TRUE
    ELSE IF ListContains(GetList(package, "exclude_on", <<>>), arch) THEN FALSE
    ELSE ListContains(GetList(package, "include_on", <<arch>>), arch)

make_atom_overlay_first(package_name, package_dict) ==
    LET d == IF package_dict.none \/ package_dict.keys = {}
             THEN EmptyEntry ELSE package_dict
        a1 == IF "overlay" \in d.keys
              THEN package_name \o <<":", ":">> \o d.overlay ELSE package_name
        a2 == IF "version" \in d.keys
              THEN <<"=">> \o a1 \o <<"-">> \o PyStr(d.version) ELSE a1
    IN  a2 \o <<NL>>

\* make_atom
make_atom(package_name, package_dict) ==
    LET d == IF package_dict.none \/ package_dict.keys = {}
             THEN EmptyEntry ELSE package_dict
        a1 == IF "version" \in d.keys
              THEN <<"=">> \o package_name \o <<"-">> \o PyStr(d.version)
              ELSE package_name
        a2 == IF "overlay" \in d.keys
              THEN a1 \o <<":", ":">> \o d.overlay ELSE a1
    IN  a2 \o <<NL>>

\* ------------------------------------------------------------ input pools
\* architecture names, set names and package names of the inputs; "-" is
\* the character the set file name is joined with
ArchNames == { <<"c">>, <<"b", "-", "c">>, <<"e">> }
SetNames == { <<"a">>, <<"a", "-", "b">> }
PkgNames == { <<"f">>, <<"g">> }
\* an architecture named nowhere in any input
OtherArch == <<"z">>

VersionValues == { StrVal(<<"1", ".", "2">>), IntVal(12) }
OverlayValues == { <<"o">> }
EntryKeys == {"version", "overlay", "exclude_on", "include_on"}

SeqsUpTo(S, n) == UNION { [1..k -> S] : k \in 0..n }
Distinct(q) == \A i, j \in DOMAIN q : q[i] = q[j] => i = j
DistinctSeqs(S) == { q \in SeqsUpTo(S, Cardinality(S)) : Distinct(q) }

ArchLists == SeqsUpTo(ArchNames, MaxListLen)

\* every entry: None, or a mapping with any of the four keys
Entries ==
    {NoneEntry} \cup
    { [none |-> FALSE, keys |-> ks, version |-> v, overlay |-> o,
       exclude_on |-> ex, include_on |-> inc] :
        ks \in SUBSET EntryKeys,
        v \in VersionValues \cup {NoValue}, o \in OverlayValues \cup {<<>>},
        ex \in ArchLists, inc \in ArchLists }

\* an entry is kept once: the field of a key it does not hold is the default
Canonical(e) ==
    /\ ("version" \in e.keys) = (e.version # NoValue)
    /\ ("overlay" \in e.keys) = (e.overlay # <<>>)
    /\ "exclude_on" \notin e.keys => e.exclude_on = <<>>
    /\ "include_on" \notin e.keys => e.include_on = <<>>

AllEntries == { e \in Entries : e.none \/ Canonical(e) }

\* the entries of the packages of a run: no entry, and one pinned to a
\* version of an overlay that lists b-c in both exclude_on and include_on
Conflicting ==
    [none |-> FALSE, keys |-> EntryKeys, version |-> IntVal(12),
     overlay |-> <<"o">>, exclude_on |-> << <<"b", "-", "c">> >>,
     include_on |-> << <<"b", "-", "c">>, <<"c">> >>]

RunEntries == { NoneEntry, Conflicting }

\* the ordered mapping package name -> entry of a set
PackageMaps ==
    UNION { { [i \in DOMAIN names |-> [name |-> names[i], entry |-> es[i]]] :
                es \in [DOMAIN names -> RunEntries] } :
            names \in DistinctSeqs(PkgNames) }

\* the ordered mapping set name -> set of eessi_sets
SetMaps ==
    UNION { { [i \in DOMAIN names |-> [name |-> names[i], packages |-> ps[i]]] :
                ps \in [DOMAIN names -> PackageMaps] } :
            names \in DistinctSeqs(SetNames) }

\* the input file: missing, not well-formed YAML, a document without one
\* of the two keys, or a document with both
NoDocument == [exists |-> FALSE, doc |-> "none", diag |-> 0,
               archs |-> <<>>, sets |-> <<>>]

InputFiles ==
    {NoDocument} \cup
    { [NoDocument EXCEPT !.exists = TRUE, !.doc = "malformed", !.diag = k] :
        k \in 0..MaxDiagLines } \cup
    { [NoDocument EXCEPT !.exists = TRUE, !.doc = d] :
        d \in {"no_archs", "no_sets"} } \cup
    { [exists |-> TRUE, doc |-> "ok", diag |-> 0, archs |-> a, sets |-> s] :
        a \in { q \in DistinctSeqs(ArchNames) : Len(q) <= MaxArchs },
        s \in SetMaps }

\* ------------------------------------------------------------------ files
YamlFile == <<"i", "n">>
SetsDir == <<"d">>

\* os.path.join(args.setsdir, f"{set_name}-{arch}")
SetFileName(set_name, arch) == SetsDir \o <<"/">> \o set_name \o <<"-">> \o arch

EmptyDir == [p \in {} |-> <<>>]
OldContent == <<"o", "l", "d", NL>>
\* a directory that already holds every set file, and a file of its own
OldDir ==
    [p \in { SetFileName(s, a) : s \in SetNames, a \in ArchNames }
            \cup { SetsDir \o <<"/", "k">> } |-> OldContent]

OpenAppend(fsys, path, data) ==
    [p \in DOMAIN fsys \cup {path} |->
        IF p = path
        THEN (IF path \in DOMAIN fsys THEN fsys[path] ELSE <<>>) \o data
        ELSE fsys[p]]

\* open(path, 'w') and writelines: the file holds the data and nothing else
OpenWrite(fsys, path, data) ==
    [p \in DOMAIN fsys \cup {path} |-> IF p = path THEN data ELSE fsys[p]]

\* --------------------------------------------------------------- messages
ExitSuccess == 0
ExitFailure == 1

\* what error(msg) writes to stderr
ErrorText(msg) == <<"ERROR: ">> \o msg \o <<NL>>

InputMissingMsg == <<"input file ">> \o YamlFile \o <<" does not exist!">>
OutputDirMissingMsg == <<"output directory ">> \o SetsDir \o <<" does not exist.">>

RECURSIVE DiagText(_)
\* str(exc) of the parser's error: k lines joined by newlines
DiagText(k) ==
    IF k = 0 THEN <<>>
    ELSE IF k = 1 THEN <<"<diagnostic>">>
    ELSE DiagText(k - 1) \o <<NL, "<diagnostic>">>

YamlErrorMsg(k) == <<"YAML file could not be parsed.", NL>> \o DiagText(k)

\* what the interpreter writes for an exception nobody catches
Traceback(exc) ==
    <<"Traceback (most recent call last):", NL, "  File ...", NL, exc, NL>>

CreatedLine(path) == [kind |-> "created", arg |-> path]

\* ------------------------------------------------------------------ state
VARIABLES
    input,      \* the YAML input file (never written)
    dirExists,  \* whether the output directory exists
    fs,         \* the files of the output directory: path -> content
    pc,         \* where the run is: "parse", "checkdir", "write", "print", "exited"
    archs,      \* main's archs
    sets,       \* main's sets
    pair,       \* <<i, j>>: the loops are at set i and architecture j
    stdout,     \* the lines printed
    stderr,     \* the text written to stderr
    status,     \* the exit status, once pc = "exited"
    raised,     \* the exception nobody caught, or "none"
    run,        \* the number of this run
    fsStart,    \* fs when this run started
    fsPrev,     \* fs when the previous run ended
    writes,     \* the pairs whose set file this run has written, in order
    call,       \* the arguments of a call of one of the two functions
    ret         \* what the call returned

vars == <<input, dirExists, fs, pc, archs, sets, pair, stdout, stderr, status,
          raised, run, fsStart, fsPrev, writes, call, ret>>

NoCall == [name |-> <<>>, entry |-> NoneEntry, arch |-> <<>>]
NoRet == [fn |-> "none", atom |-> <<>>, supported |-> FALSE]

\* the process as it starts main, after parse_args
Fresh ==
    /\ pc = "parse"
    /\ archs = <<>>
    /\ sets = <<>>
    /\ pair = <<0, 0>>
    /\ stdout = <<>>
    /\ stderr = <<>>
    /\ status = ExitSuccess
    /\ raised = "none"
    /\ writes = <<>>

Init ==
    /\ input \in InputFiles
    /\ dirExists \in BOOLEAN
    /\ fs \in (IF dirExists THEN {EmptyDir, OldDir} ELSE {EmptyDir})
    /\ Fresh
    /\ run = 1
    /\ fsStart = fs
    /\ fsPrev = fs
    /\ call = NoCall
    /\ ret = NoRet

\* ---------------------------------------------------------------- actions
ExitsWith(text, code) ==
    /\ stderr' = stderr \o text
    /\ status' = code
    /\ pc' = "exited"

error_exit_zero(msg) == ExitsWith(ErrorText(msg), ExitSuccess)

\* error(msg)
error(msg) == ExitsWith(ErrorText(msg), ExitFailure)

\* an exception that nothing catches ends the process
Uncaught(exc, text) ==
    /\ raised' = exc
    /\ ExitsWith(Traceback(text), ExitFailure)

\* parse_yaml_file, called by main
parse_yaml_file ==
    /\ pc = "parse"
    /\ UNCHANGED <<input, dirExists, fs, pair, stdout, run, fsStart, fsPrev,
                   writes, call, ret>>
    /\ IF ~input.exists
       THEN error(InputMissingMsg) /\ UNCHANGED <<archs, sets, raised>>
       ELSE IF input.doc = "malformed"
       THEN error(YamlErrorMsg(input.diag)) /\ UNCHANGED <<archs, sets, raised>>
       ELSE IF input.doc = "no_archs"
       THEN Uncaught("KeyError", "KeyError: 'eessi_archs'")
            /\ UNCHANGED <<archs, sets>>
       ELSE IF input.doc = "no_sets"
       THEN Uncaught("KeyError", "KeyError: 'eessi_sets'")
            /\ UNCHANGED <<archs, sets>>
       ELSE /\ archs' = input.archs
            /\ sets' = input.sets
            /\ pc' = "checkdir"
            /\ UNCHANGED <<stderr, status, raised>>

NextPair_archs_outer(i, j) ==
    IF i < Len(sets) THEN <<i + 1, j>>
    ELSE IF j < Len(archs) THEN <<1, j + 1>>
    ELSE <<0, 0>>

\* the pair after <<i, j>> of the two nested loops; <<0, 0>> after the last
NextPair(i, j) ==
    IF j < Len(archs) THEN <<i, j + 1>>
    ELSE IF i < Len(sets) THEN <<i + 1, 1>>
    ELSE <<0, 0>>

CheckSetsDir_no_check ==
    /\ pc = "checkdir"
    /\ UNCHANGED <<input, dirExists, fs, archs, sets, stdout, run, fsStart,
                   fsPrev, writes, call, ret, raised>>
    /\ IF Len(sets) = 0 \/ Len(archs) = 0
       THEN ExitsWith(<<>>, ExitSuccess) /\ UNCHANGED pair
       ELSE pc' = "write" /\ pair' = <<1, 1>> /\ UNCHANGED <<stderr, status>>

\* main, from the check of the output directory to the first pair
CheckSetsDir ==
    /\ pc = "checkdir"
    /\ UNCHANGED <<input, dirExists, fs, archs, sets, stdout, run, fsStart,
                   fsPrev, writes, call, ret, raised>>
    /\ IF ~dirExists
       THEN error(OutputDirMissingMsg) /\ UNCHANGED pair
       ELSE IF Len(sets) = 0 \/ Len(archs) = 0
       THEN ExitsWith(<<>>, ExitSuccess) /\ UNCHANGED pair
       ELSE pc' = "write" /\ pair' = <<1, 1>> /\ UNCHANGED <<stderr, status>>

RECURSIVE SupportedAtoms(_, _)
\* the list comprehension: the atoms of the supported packages, in order
SupportedAtoms(packages, arch) ==
    IF packages = <<>> THEN <<>>
    ELSE LET p == Head(packages)
         IN (IF is_supported(p.entry, arch)
             THEN <<make_atom(p.name, p.entry)>> ELSE <<>>)
            \o SupportedAtoms(Tail(packages), arch)

DebugLines(packages, arch) ==
    [i \in DOMAIN packages |-> DebugLine(packages[i].entry, arch)]

\* main: one pair's list is built and its file opened and written
WriteSetFile ==
    /\ pc = "write"
    /\ LET set == sets[pair[1]]
           arch == archs[pair[2]]
           supported_packages == SupportedAtoms(set.packages, arch)
           set_filename == SetFileName(set.name, arch)
       IN /\ stdout' = stdout \o DebugLines(set.packages, arch)
          /\ \/ \* the file is written and closed
                /\ dirExists
                /\ fs' = OpenWrite(fs, set_filename, Concat(supported_packages))
                /\ writes' = Append(writes, pair)
                /\ pc' = "print"
                /\ UNCHANGED <<stderr, status, raised>>
             \/ \* open fails
                /\ UNCHANGED <<fs, writes>>
                /\ Uncaught("OSError", "OSError")
             \/ \* open has emptied the file, and the write or the close fails
                /\ dirExists
                /\ \E k \in 0..Len(supported_packages) :
                     fs' = OpenWrite(fs, set_filename,
                                     Concat(SubSeq(supported_packages, 1, k)))
                /\ UNCHANGED writes
                /\ Uncaught("OSError", "OSError")
    /\ UNCHANGED <<input, dirExists, archs, sets, pair, run, fsStart, fsPrev,
                   call, ret>>

\* main: the confirmation is printed and the loops move on
PrintCreated ==
    /\ pc = "print"
    /\ stdout' = Append(stdout,
           CreatedLine(SetFileName(sets[pair[1]].name, archs[pair[2]])))
    /\ pair' = NextPair(pair[1], pair[2])
    /\ IF pair' = <<0, 0>>
       THEN ExitsWith(<<>>, ExitSuccess)
       ELSE pc' = "write" /\ UNCHANGED <<stderr, status>>
    /\ UNCHANGED <<input, dirExists, fs, archs, sets, raised, run, fsStart,
                   fsPrev, writes, call, ret>>

\* the generator is run again, on the same input file and directory, after
\* a run that succeeded
Rerun ==
    /\ pc = "exited"
    /\ status = ExitSuccess
    /\ raised = "none"
    /\ run < MaxRuns
    /\ run' = run + 1
    /\ fsPrev' = fs
    /\ fsStart' = fs
    /\ pc' = "parse"
    /\ archs' = <<>>
    /\ sets' = <<>>
    /\ pair' = <<0, 0>>
    /\ stdout' = <<>>
    /\ stderr' = <<>>
    /\ writes' = <<>>
    /\ UNCHANGED <<input, dirExists, fs, status, raised, call, ret>>

Next ==
    \/ parse_yaml_file
    \/ CheckSetsDir
    \/ WriteSetFile
    \/ PrintCreated
    \/ Rerun

Spec == Init /\ [][Next]_vars

\* ------------------------------------------- the two functions on their own
\* one call of is_supported or of make_atom, on any entry, any package name
\* and any architecture (one of them named in no entry)
InitCall ==
    /\ input = NoDocument
    /\ dirExists = FALSE
    /\ fs = EmptyDir
    /\ pc = "call"
    /\ archs = <<>>
    /\ sets = <<>>
    /\ pair = <<0, 0>>
    /\ stdout = <<>>
    /\ stderr = <<>>
    /\ status = ExitSuccess
    /\ raised = "none"
    /\ writes = <<>>
    /\ run = 1
    /\ fsStart = fs
    /\ fsPrev = fs
    /\ call \in [name : PkgNames, entry : AllEntries,
                 arch : ArchNames \cup {OtherArch}]
    /\ ret = NoRet

CallIsSupported ==
    /\ pc = "call"
    /\ stdout' = Append(stdout, DebugLine(call.entry, call.arch))
    /\ ret' = [NoRet EXCEPT !.fn = "is_supported",
                            !.supported = is_supported(call.entry, call.arch)]
    /\ pc' = "returned"
    /\ UNCHANGED <<input, dirExists, fs, archs, sets, pair, stderr, status,
                   raised, run, fsStart, fsPrev, writes, call>>

CallMakeAtom ==
    /\ pc = "call"
    /\ ret' = [NoRet EXCEPT !.fn = "make_atom",
                            !.atom = make_atom(call.name, call.entry)]
    /\ pc' = "returned"
    /\ UNCHANGED <<input, dirExists, fs, archs, sets, pair, stdout, stderr,
                   status, raised, run, fsStart, fsPrev, writes, call>>

NextCall == CallIsSupported \/ CallMakeAtom

SpecCall == InitCall /\ [][NextCall]_vars

\* ----------------------------------------------------------------- claims
Range(q) == { q[i] : i \in DOMAIN q }

Holds(e, key) == ~e.none /\ key \in e.keys

\* C1: is_supported(entry, arch) is true for an absent entry, and otherwise
\* is (arch not in exclude_on, empty when absent) and (arch in include_on,
\* [arch] when absent): an entry with neither key is supported everywhere,
\* exclude_on = [A] alone removes exactly A, include_on = [A] alone keeps
\* exactly A.
IsSupportedContract ==
    ret.fn = "is_supported" =>
        LET e == call.entry
            a == call.arch
            excluded == IF Holds(e, "exclude_on") THEN Range(e.exclude_on) ELSE {}
            included == IF Holds(e, "include_on") THEN Range(e.include_on) ELSE {a}
        IN /\ ret.supported = (e.none \/ (a \notin excluded /\ a \in included))
           /\ (~Holds(e, "exclude_on") /\ ~Holds(e, "include_on")) => ret.supported
           /\ \A A \in ArchNames :
                /\ (Holds(e, "exclude_on") /\ e.exclude_on = <<A>>
                    /\ ~Holds(e, "include_on")) => (ret.supported = (a # A))
                /\ (Holds(e, "include_on") /\ e.include_on = <<A>>
                    /\ ~Holds(e, "exclude_on")) => (ret.supported = (a = A))

\* an entry that is an empty mapping was found supported on the architecture
\* no input names
IsSupportedWitness ==
    /\ ret.fn = "is_supported"
    /\ call.entry = EmptyEntry
    /\ call.arch = OtherArch
    /\ ret.supported

\* C2: make_atom(name, entry) is one line ending in a newline: name, with
\* "=" before and "-<version>" after when there is a version, then
\* "::<overlay>" when there is an overlay.
MakeAtomContract ==
    ret.fn = "make_atom" =>
        LET e == call.entry
            n == call.name
            V == PyStr(e.version)
            O == e.overlay
            hasV == Holds(e, "version")
            hasO == Holds(e, "overlay")
        IN /\ ret.atom =
                 (CASE ~hasV /\ ~hasO -> n \o <<NL>>
                    [] hasV /\ ~hasO -> <<"=">> \o n \o <<"-">> \o V \o <<NL>>
                    [] ~hasV /\ hasO -> n \o <<":", ":">> \o O \o <<NL>>
                    [] hasV /\ hasO ->
                         <<"=">> \o n \o <<"-">> \o V \o <<":", ":">> \o O \o <<NL>>)
           /\ CountNL(ret.atom) = 1
           /\ ret.atom[Len(ret.atom)] = NL
           /\ Len(Lines(ret.atom)) = 1

\* the atom of an entry with a version that is an int and an overlay
MakeAtomWitness ==
    /\ ret.fn = "make_atom"
    /\ Holds(call.entry, "version")
    /\ Holds(call.entry, "overlay")
    /\ call.entry.version.kind = "int"
    /\ ret.atom = <<"=">> \o call.name \o <<"-", "1", "2", ":", ":", "o", NL>>

\* the resolver's half of the exclusion rule: an architecture that
\* exclude_on lists is never supported, whatever include_on lists
ExclusionWins ==
    (ret.fn = "is_supported" /\ Holds(call.entry, "exclude_on")
     /\ call.arch \in Range(call.entry.exclude_on)) => ~ret.supported

\* ---- the run
Succeeded == pc = "exited" /\ status = ExitSuccess /\ raised = "none"

Pairs == (1..Len(sets)) \X (1..Len(archs))

PathOf(p) == SetFileName(sets[p[1]].name, archs[p[2]])

\* the content the contract gives the file of pair p: the atoms of the
\* packages of the set that are supported on the architecture, in order
Expected(p) ==
    LET arch == archs[p[2]]
        Keep(pkg) == is_supported(pkg.entry, arch)
        kept == SelectSeq(sets[p[1]].packages, Keep)
    IN  Concat([i \in DOMAIN kept |-> make_atom(kept[i].name, kept[i].entry)])

Created == SelectSeq(stdout, LAMBDA l : l.kind = "created")

\* C3: after a successful run the file <S>-<A> of every set S and
\* architecture A holds exactly the atoms of the packages of S supported on
\* A, in declaration order, whatever it held before.
EveryFileHoldsItsPair ==
    Succeeded =>
        \A p \in Pairs : PathOf(p) \in DOMAIN fs /\ fs[PathOf(p)] = Expected(p)

\* C4: exclusion wins over inclusion, so at no time does a file written for
\* architecture A hold the atom of a package whose exclude_on lists A.
ExcludedNeverEmitted ==
    \A k \in DOMAIN writes :
        LET p == writes[k]
            pkgs == sets[p[1]].packages
        IN \A i \in DOMAIN pkgs :
             (Holds(pkgs[i].entry, "exclude_on")
              /\ archs[p[2]] \in Range(pkgs[i].entry.exclude_on))
             => make_atom(pkgs[i].name, pkgs[i].entry)
                    \notin Range(Lines(fs[PathOf(p)]))

\* C5: without the output directory the run fails with the error of the
\* missing directory before any write: no file is created or changed and no
\* confirmation is printed.
NoDirNoWrite ==
    ~dirExists =>
        /\ fs = fsStart
        /\ writes = <<>>
        /\ Created = <<>>
        /\ pc \notin {"write", "print"}
        /\ (pc = "exited" /\ input.doc = "ok") =>
              /\ stderr = ErrorText(OutputDirMissingMsg)
              /\ status = ExitFailure
              /\ raised = "none"

\* an input of two sets and two architectures, and the run has ended on
\* the missing directory
NoDirWitness ==
    /\ ~dirExists
    /\ pc = "exited"
    /\ Len(sets) = 2
    /\ Len(archs) = 2
    /\ stderr = ErrorText(OutputDirMissingMsg)

\* C6: the loader fails with NotFound when the input path does not exist,
\* with a ParseError carrying the parser's diagnostic when the content is
\* not well-formed or lacks one of the two keys, and otherwise returns the
\* two collections of the document.
LoaderContract ==
    pc # "parse" =>
        /\ ~input.exists => (pc = "exited" /\ stderr = ErrorText(InputMissingMsg))
        /\ (input.exists /\ input.doc # "ok") =>
              /\ pc = "exited"
              /\ raised = "none"
              /\ \E k \in 0..MaxDiagLines : stderr = ErrorText(YamlErrorMsg(k))
        /\ (input.exists /\ input.doc = "ok") =>
              (archs = input.archs /\ sets = input.sets)

Fatal ==
    \/ ~input.exists
    \/ input.doc = "malformed"
    \/ input.doc = "ok" /\ ~dirExists

\* C7 as stated: every fatal condition prints a single-line error to stderr
\* and ends with a non-zero status; a successful run prints one confirmation
\* line per file written and ends with status zero.
SingleLineErrors ==
    pc = "exited" =>
        /\ Fatal => (CountNL(stderr) = 1 /\ status # ExitSuccess)
        /\ (~Fatal /\ raised = "none" /\ input.doc = "ok") =>
              (status = ExitSuccess /\ Len(Created) = Len(writes))

\* C7 as amended: a missing input file and a missing output directory print
\* the one line "ERROR: <message>"; malformed YAML prints "ERROR: YAML file
\* could not be parsed." and then, on further lines, the parser's diagnostic
\* (two lines or more); each ends with status 1.  A successful run prints
\* one confirmation line per set file written, nothing on stderr, and ends
\* with status zero.
ErrorsAndStatus ==
    pc = "exited" =>
        /\ ~input.exists =>
              (stderr = ErrorText(InputMissingMsg) /\ CountNL(stderr) = 1
               /\ status = ExitFailure)
        /\ (input.doc = "ok" /\ ~dirExists) =>
              (stderr = ErrorText(OutputDirMissingMsg) /\ CountNL(stderr) = 1
               /\ status = ExitFailure)
        /\ input.doc = "malformed" =>
              /\ SubSeq(stderr, 1, 3) =
                    <<"ERROR: ", "YAML file could not be parsed.", NL>>
              /\ stderr[Len(stderr)] = NL
              /\ CountNL(stderr) >= 2
              /\ CountNL(stderr) =
                    2 + (IF input.diag > 1 THEN input.diag - 1 ELSE 0)
              /\ status = ExitFailure
        /\ (~Fatal /\ raised = "none" /\ input.doc = "ok") =>
              /\ status = ExitSuccess
              /\ stderr = <<>>
              /\ Len(Created) = Len(writes)
              /\ Len(writes) = Len(sets) * Len(archs)
              /\ \A k \in DOMAIN writes : Created[k] = CreatedLine(PathOf(writes[k]))

\* the parser's diagnostic of two lines has been printed after the line of
\* the error
MalformedWitness ==
    /\ pc = "exited"
    /\ input.doc = "malformed"
    /\ input.diag = 2
    /\ CountNL(stderr) = 3
    /\ status = ExitFailure

\* C8: a successful run leaves one file per (set, architecture) pair: as
\* many distinct files as pairs, no two pairs share a file, and each pair's
\* file holds that pair's own list.
OneFilePerPair ==
    Succeeded =>
        /\ Cardinality({ PathOf(p) : p \in Pairs }) = Len(sets) * Len(archs)
        /\ \A p, q \in Pairs : p # q => PathOf(p) # PathOf(q)
        /\ \A p \in Pairs : fs[PathOf(p)] = Expected(p)

\* C9: after a second successful run on the same input and directory every
\* file is what it was after the first, and no file has been added.
RerunIdempotent ==
    (run > 1 /\ Succeeded) => fs = fsPrev

\* a second run has ended after writing four set files over those of the
\* first, which had replaced older files
RerunWitness ==
    /\ run = 2
    /\ Succeeded
    /\ Len(writes) = 4
    /\ fs = fsPrev
    /\ \E p \in DOMAIN fs : fs[p] # <<>> /\ fs[p] # OldContent

\* the k-th pair of the nested loops, sets outside and architectures inside
NestedOrder(k) == <<((k - 1) \div Len(archs)) + 1, ((k - 1) % Len(archs)) + 1>>

InLoopOrder ==
    /\ \A k \in DOMAIN writes : writes[k] = NestedOrder(k)
    /\ writes # <<>> => (archs = input.archs /\ sets = input.sets)
    /\ Len(Created) <= Len(writes)
    /\ \A k \in DOMAIN Created : Created[k] = CreatedLine(PathOf(writes[k]))
    /\ pc = "write" => Len(Created) = Len(writes)

\* C10: set files are written one at a time in the order of the nested
\* loops (sets outside, architectures inside) after the YAML read: the
\* pairs written are always a prefix of that order, a confirmation is
\* printed only after its file is written, and once a write has failed no
\* file is written any more.
SequentialWrites ==
    /\ []InLoopOrder
    /\ [][raised = "OSError" => (fs' = fs /\ writes' = writes)]_vars

\* the third pair has been written, in order, and its confirmation not yet
\* printed
SequentialWitness ==
    /\ pc = "print"
    /\ writes = <<<<1, 1>>, <<1, 2>>, <<2, 1>>>>
    /\ Len(Created) = 2

====
